---- MODULE Spec2Model ----
(***************************************************************************)
(* TruthBench (llm-service/src/truthbench): the market replay engine, the  *)
(* prompt builder, the portfolio ledger with settlement, and the           *)
(* orchestrator with its stop request and its update stream.               *)
(*                                                                         *)
(* Arithmetic.  Prices, quantities and bankrolls are integers (cents and   *)
(* contracts).  Python floats are modelled by exact rationals: the average *)
(* entry price and a P&L are records [num, den] in lowest terms, and       *)
(* max_position_pct is an integer percentage (0.10 is 10).  Python indices *)
(* are kept 0-based in every operator's interface; sequences are 1-based   *)
(* inside.  A JSON null or a missing numeric key is Null.                  *)
(***************************************************************************)
EXTENDS Integers, Sequences, FiniteSets, Bags, TLC

VARIABLES
    markets,            \* MarketReplayEngine.markets
    max_position_pct,   \* SimulationConfig.max_position_pct, in percent
    initial_bankroll,   \* SimulationConfig.initial_bankroll, in cents
    portfolios,         \* PortfolioManager.portfolios
    market_state,       \* the MarketState of the current decision point
    decision_points,    \* the list get_decision_points returned last
    num_points,         \* the num_points of that call
    user_prompt,        \* the prompt built last (simulation.py:251)
    last,               \* the trade execution / settlement returned last
    pre,                \* portfolios before the last operation
    prev,               \* <<op, market_ticker>> of the operation before last
    ops,                \* number of ledger operations so far
    markets_file,       \* the markets file: readable or not, and its records
    status,             \* TruthBenchSimulation._status
    error_message,      \* TruthBenchSimulation._error_message
    stop_requested,     \* TruthBenchSimulation._stop_requested
    markets_completed,  \* TruthBenchSimulation._markets_completed
    all_decisions,      \* length of TruthBenchSimulation._all_decisions
    market_results,     \* TruthBenchSimulation._market_results
    predictions,        \* ScoringEngine.predictions, as a bag
    tracer,             \* SimulationTracer.trace, its counters and status
    scores,             \* the scores run() computes at the end
    pc,                 \* where run() stands
    market_idx,         \* run(): index of the market of the outer loop
    dp_idx,             \* run(): index of the decision point
    model_idx,          \* run(): index into config.models
    decision_result,    \* run(): the DecisionResult awaiting application
    exception,          \* run(): the message of the exception in flight
    stream,             \* the stream_updates generator
    hist                \* history of the run, for stating properties

ledgerVars == <<markets, max_position_pct, initial_bankroll, portfolios,
                market_state, decision_points, num_points, user_prompt, last,
                pre, prev, ops>>

simVars == <<markets_file, status, error_message, stop_requested,
             markets_completed, market_results, tracer, scores>>

loopVars == <<pc, market_idx, dp_idx, model_idx, decision_result,
              exception>>

vars == <<ledgerVars, simVars, loopVars, all_decisions, predictions, stream,
          hist>>

----------------------------------------------------------------------------
(* Bounds *)

MaxCandles == 5
MaxPoints == 6
MaxOps == 3

----------------------------------------------------------------------------
(* Helpers *)

Null == -1

Min(a, b) == IF a <= b THEN a ELSE b
Max(a, b) == IF a >= b THEN a ELSE b

Abs(a) == IF a < 0 THEN -a ELSE a

RECURSIVE GCD(_, _)
GCD(a, b) == IF b = 0 THEN a ELSE GCD(b, a % b)

\* the rational n/d (d > 0) in lowest terms
Rat(n, d) ==
    LET g == GCD(Abs(n), d)
    IN  [num |-> n \div g, den |-> d \div g]

RatOfInt(n) == [num |-> n, den |-> 1]

\* Python int(a / b) for b > 0: truncation toward zero
IntTrunc(a, b) == IF a >= 0 THEN a \div b ELSE -((-a) \div b)

\* Python round(a / b) for a >= 0, b > 0: to the nearest integer, a tie to
\* the even one
Round(a, b) ==
    LET q == a \div b
        r == a % b
    IN  IF 2 * r < b THEN q
        ELSE IF 2 * r > b THEN q + 1
        ELSE IF q % 2 = 0 THEN q ELSE q + 1

RECURSIVE SumSeq(_)
SumSeq(s) == IF s = <<>> THEN 0 ELSE Head(s) + SumSeq(Tail(s))

RECURSIVE MaxSeq(_)
MaxSeq(s) == IF Len(s) = 1 THEN s[1] ELSE Max(s[1], MaxSeq(Tail(s)))

RECURSIVE MinSeq(_)
MinSeq(s) == IF Len(s) = 1 THEN s[1] ELSE Min(s[1], MinSeq(Tail(s)))

RECURSIVE Truthy(_)
Truthy(s) ==
    IF s = <<>> THEN <<>>
    ELSE IF Head(s) # 0 THEN <<Head(s)>> \o Truthy(Tail(s))
    ELSE Truthy(Tail(s))

----------------------------------------------------------------------------
(* Replay engine (replay.py) *)

\* x or 0, for a value read with a default of 0
OrZero(x) == IF x = Null THEN 0 ELSE x

\* A raw candlestick is [fmt, ts, bid, ask, close, volume, open_interest]:
\* fmt "flat" keeps timestamp/yes_bid_close/yes_ask_close/price_close,
\* fmt "nested" keeps end_period_ts and yes_bid/yes_ask/price {close: ..}.
ParseCandlestick(raw) ==
    [timestamp     |-> OrZero(raw.ts),
     yes_bid       |-> OrZero(raw.bid),
     yes_ask       |-> OrZero(raw.ask),
     price_close   |-> OrZero(raw.close),
     volume        |-> OrZero(raw.volume),
     open_interest |-> OrZero(raw.open_interest)]

NoMarketState ==
    [ticker |-> "", title |-> "", rules_primary |-> "", rules_secondary |-> "",
     current_timestamp |-> 0, open_time |-> "", close_time |-> "",
     current_yes_bid |-> 0, current_yes_ask |-> 0, current_price |-> 0,
     volume |-> 0, open_interest |-> 0, price_history |-> <<>>, result |-> ""]

\* the snapshot whose volume is summed over the whole history
GetMarketStateAtTimestepTotalVolume(market, timestep_idx) ==
    LET n == Min(Len(market.price_history), timestep_idx + 1)
        candlesticks == [j \in 1..n |-> ParseCandlestick(market.price_history[j])]
        has == n > 0
        current == candlesticks[n]
    IN  [ticker            |-> market.ticker,
         title             |-> market.title,
         rules_primary     |-> market.rules_primary,
         rules_secondary   |-> market.rules_secondary,
         current_timestamp |-> IF has THEN current.timestamp ELSE 0,
         open_time         |-> market.open_time,
         close_time        |-> market.close_time,
         current_yes_bid   |-> IF has THEN current.yes_bid ELSE 50,
         current_yes_ask   |-> IF has THEN current.yes_ask ELSE 50,
         current_price     |-> IF has THEN current.price_close ELSE 50,
         volume            |-> SumSeq([j \in 1..Len(market.price_history) |->
                                ParseCandlestick(market.price_history[j]).volume]),
         open_interest     |-> IF has THEN current.open_interest ELSE 0,
         price_history     |-> candlesticks,
         result            |-> market.result]

GetMarketStateAtTimestep(market, timestep_idx) ==
    LET n == Min(Len(market.price_history), timestep_idx + 1)
        candlesticks == [j \in 1..n |-> ParseCandlestick(market.price_history[j])]
        has == n > 0
        current == candlesticks[n]
    IN  [ticker            |-> market.ticker,
         title             |-> market.title,
         rules_primary     |-> market.rules_primary,
         rules_secondary   |-> market.rules_secondary,
         current_timestamp |-> IF has THEN current.timestamp ELSE 0,
         open_time         |-> market.open_time,
         close_time        |-> market.close_time,
         current_yes_bid   |-> IF has THEN current.yes_bid ELSE 50,
         current_yes_ask   |-> IF has THEN current.yes_ask ELSE 50,
         current_price     |-> IF has THEN current.price_close ELSE 50,
         volume            |-> SumSeq([j \in 1..n |-> candlesticks[j].volume]),
         open_interest     |-> IF has THEN current.open_interest ELSE 0,
         price_history     |-> candlesticks,
         result            |-> market.result]

\* the sampling that never appends the last index
DecisionPointIndicesNoLast(total, k) ==
    IF total <= k
    THEN [j \in 1..total |-> j - 1]
    ELSE LET interior == [i \in 1..(k - 2) |->
                            IntTrunc(i * (total - 1), k - 1)]
         IN  <<0>> \o interior

\* the sampling that rounds the quotient to the nearest index
DecisionPointIndicesRounded(total, k) ==
    IF total <= k
    THEN [j \in 1..total |-> j - 1]
    ELSE LET interior == [i \in 1..(k - 2) |->
                            Round(i * (total - 1), k - 1)]
         IN  <<0>> \o interior \o <<total - 1>>

\* the candlestick indices get_decision_points selects (lines 271-284): all
\* of them when total <= num_points, else 0, the interior indices
\* int(i * step) for i in range(1, num_points - 1), and total - 1; for
\* num_points below 2 the range is empty and the list is [0, total - 1].
\* int(i * step) is taken as the floor of the exact quotient
\* i*(total-1)/(num_points-1); the float product equals it for every total
\* below 31 (at total = 31, num_points = 23, i = 11 the float gives 14 where
\* the quotient is 15).
DecisionPointIndices(total, k) ==
    IF total <= k
    THEN [j \in 1..total |-> j - 1]
    ELSE LET interior == [i \in 1..(k - 2) |->
                            IntTrunc(i * (total - 1), k - 1)]
         IN  <<0>> \o interior \o <<total - 1>>

\* step = (total - 1) / (num_points - 1) (line 281) divides by zero
StepRaises(total, k) == total > k /\ k = 1

GetDecisionPoints(market, k) ==
    IF market.price_history = <<>> THEN <<>>
    ELSE LET indices == DecisionPointIndices(Len(market.price_history), k)
         IN  [j \in 1..Len(indices) |-> GetMarketStateAtTimestep(market, indices[j])]

\* fmt "scalar" keeps yes_bid/yes_ask/price as bare numbers: raw.get("yes_bid",
\* {}) is then a number and its .get raises AttributeError (lines 162-167)
ParseCandlestickRaises(raw) == raw.fmt = "scalar"

\* get_decision_points parses every candlestick up to each selected index,
\* and the last index is always selected
GetDecisionPointsRaises(market, k) ==
    /\ market.price_history # <<>>
    /\ \/ StepRaises(Len(market.price_history), k)
       \/ LET indices == DecisionPointIndices(Len(market.price_history), k)
          IN  \E j \in 1..Len(indices) : \E c \in 1..(indices[j] + 1) :
                  ParseCandlestickRaises(market.price_history[c])

\* the filter of load_markets (lines 97-106): volume, history, result
Loadable(raw, min_volume) ==
    /\ ~(raw.volume < min_volume)
    /\ raw.price_history # <<>>
    /\ raw.result # ""

\* the loop of load_markets (lines 95-133) over the records left, given the
\* markets loaded so far; max_markets is Null for None
RECURSIVE LoadMarkets(_, _, _, _)
LoadMarkets(raw_list, min_volume, max_markets, loaded) ==
    IF raw_list = <<>> THEN loaded
    ELSE IF ~Loadable(Head(raw_list), min_volume)
    THEN LoadMarkets(Tail(raw_list), min_volume, max_markets, loaded)
    ELSE LET raw == Head(raw_list)
             market == [ticker |-> raw.ticker, title |-> raw.title,
                        rules_primary |-> raw.rules_primary,
                        rules_secondary |-> raw.rules_secondary,
                        open_time |-> raw.open_time,
                        close_time |-> raw.close_time,
                        result |-> raw.result,
                        price_history |-> raw.price_history]
             more == Append(loaded, market)
         IN  IF max_markets # Null /\ max_markets # 0
                /\ Len(more) >= max_markets
             THEN more
             ELSE LoadMarkets(Tail(raw_list), min_volume, max_markets, more)

----------------------------------------------------------------------------
(* Data model (models.py) *)

BUY_YES == "buy_yes"
BUY_NO == "buy_no"
HOLD == "hold"
SELL_YES == "sell_yes"
SELL_NO == "sell_no"

Action == {BUY_YES, BUY_NO, HOLD, SELL_YES, SELL_NO}

\* the empty positions dict
NoPositions == [x \in {} |-> 0]

\* Portfolio as PortfolioManager.__init__ creates it; positions is a dict
\* ticker -> Position, decisions the length of the decision history
NewPortfolio(bankroll) ==
    [bankroll         |-> bankroll,
     initial_bankroll |-> bankroll,
     positions        |-> NoPositions,
     decisions        |-> 0,
     total_trades     |-> 0,
     winning_trades   |-> 0]

\* dict deletion and dict assignment on a positions map
DelKey(f, k) == [x \in (DOMAIN f) \ {k} |-> f[x]]
SetKey(f, k, v) == [x \in (DOMAIN f) \cup {k} |-> IF x = k THEN v ELSE f[x]]

----------------------------------------------------------------------------
(* Decision protocol: prompt construction (decision.py) *)

\* price_summary (lines 62-74): zero closes are dropped by "if c.price_close"
PriceSummary(state) ==
    LET prices == Truthy([j \in 1..Len(state.price_history) |->
                            state.price_history[j].price_close])
    IN  IF prices # <<>>
        THEN <<"Price started at", prices[1], "now at", prices[Len(prices)],
               "high", MaxSeq(prices), "low", MinSeq(prices)>>
        ELSE <<"No price history available">>

\* position_info (lines 76-83)
PositionInfo(state, portfolio) ==
    IF state.ticker \in DOMAIN portfolio.positions
    THEN LET pos == portfolio.positions[state.ticker]
         IN  <<"You hold", pos.quantity, pos.side, pos.avg_price>>
    ELSE <<"You have no position in this market.">>

\* implied_prob rendered with :.1%, in tenths of a percent (lines 85-87, 99)
ImpliedProb(state) ==
    LET mid2 == state.current_yes_bid + state.current_yes_ask
    IN  IF mid2 > 0 THEN mid2 * 5 ELSE 500

\* the prompt with hide_result ignored and the result rendered
BuildMarketPromptWithResult(state, portfolio) ==
    [question      |-> state.title,
     rules         |-> state.rules_primary,
     additional    |-> <<"Additional:", state.rules_secondary,
                         "Result:", state.result>>,
     yes_price     |-> <<state.current_yes_bid, state.current_yes_ask>>,
     implied_prob  |-> ImpliedProb(state),
     volume        |-> state.volume,
     open_interest |-> state.open_interest,
     price_summary |-> PriceSummary(state),
     opened        |-> state.open_time,
     closes        |-> state.close_time,
     bankroll      |-> <<portfolio.bankroll \div 100, portfolio.bankroll % 100>>,
     position_info |-> PositionInfo(state, portfolio)]

\* The rendered text, as the record of the values interpolated into the
\* template; the bankroll ${x/100:,.2f} is <<dollars, cents>>.
BuildMarketPrompt(state, portfolio) ==
    [question      |-> state.title,
     rules         |-> state.rules_primary,
     additional    |-> IF state.rules_secondary # ""
                       THEN <<"Additional:", state.rules_secondary>>
                       ELSE <<>>,
     yes_price     |-> <<state.current_yes_bid, state.current_yes_ask>>,
     implied_prob  |-> ImpliedProb(state),
     volume        |-> state.volume,
     open_interest |-> state.open_interest,
     price_summary |-> PriceSummary(state),
     opened        |-> state.open_time,
     closes        |-> state.close_time,
     bankroll      |-> <<portfolio.bankroll \div 100, portfolio.bankroll % 100>>,
     position_info |-> PositionInfo(state, portfolio)]

----------------------------------------------------------------------------
(* Portfolio ledger (portfolio.py) *)

\* the cap without the position fraction
CalculateMaxQuantityWholeBankroll(portfolio, price) ==
    IF price <= 0 THEN 0
    ELSE Max(0, IntTrunc(portfolio.bankroll, price))

\* the cap rounded up instead of truncated
CalculateMaxQuantityRoundUp(portfolio, price) ==
    IF price <= 0 THEN 0
    ELSE Max(0, (portfolio.bankroll * max_position_pct + 100 * price - 1)
                    \div (100 * price))

CalculateMaxQuantity(portfolio, price) ==
    IF price <= 0 THEN 0
    ELSE Max(0, IntTrunc(portfolio.bankroll * max_position_pct, 100 * price))

\* the price chosen by action (lines 149-169); HOLD returns before
QuotedPrice(action, state) ==
    CASE action = BUY_YES  -> state.current_yes_ask
      [] action = BUY_NO   -> 100 - state.current_yes_bid
      [] action = SELL_YES -> state.current_yes_bid
      [] action = SELL_NO  -> 100 - state.current_yes_ask
      [] OTHER             -> 50

\* "Ensure price is valid" (lines 171-175)
ValidPrice(price) ==
    IF price <= 0 THEN 1
    ELSE IF price > 100 THEN 99
    ELSE price

\* the sell guard of line 156: only the ticker is looked up
HasPositionToSell(portfolio, decision) ==
    decision.market_ticker \in DOMAIN portfolio.positions

\* the requested quantity, not capped to the holding
SellQuantityUncapped(portfolio, decision) ==
    IF decision.market_ticker \in DOMAIN portfolio.positions
    THEN decision.quantity
    ELSE 0

\* "Selling - use position quantity" (lines 195-200)
SellQuantity(portfolio, decision) ==
    IF decision.market_ticker \in DOMAIN portfolio.positions
    THEN Min(decision.quantity, portfolio.positions[decision.market_ticker].quantity)
    ELSE 0

NewPosition(ticker, side, quantity, price, timestamp) ==
    [market_ticker   |-> ticker,
     side            |-> side,
     quantity        |-> quantity,
     avg_price       |-> RatOfInt(price),
     entry_timestamp |-> timestamp]

\* the buy that is not counted as a trade
ApplyBuyUncounted(portfolio, decision, side, quantity, price) ==
    LET t == decision.market_ticker
        cost == quantity * price
        fresh == NewPosition(t, side, quantity, price, decision.timestamp)
        position ==
            IF t \in DOMAIN portfolio.positions /\ portfolio.positions[t].side = side
            THEN LET pos == portfolio.positions[t]
                     q2 == pos.quantity + quantity
                 IN  [pos EXCEPT
                        !.quantity = q2,
                        !.avg_price = Rat(pos.avg_price.num * pos.quantity
                                            + cost * pos.avg_price.den,
                                          pos.avg_price.den * q2)]
            ELSE fresh
    IN  [portfolio EXCEPT
            !.bankroll = @ - cost,
            !.positions = SetKey(@, t, position)]

\* the buy that adds to an existing position whatever its side
ApplyBuyMergeAnySide(portfolio, decision, side, quantity, price) ==
    LET t == decision.market_ticker
        cost == quantity * price
        fresh == NewPosition(t, side, quantity, price, decision.timestamp)
        position ==
            IF t \in DOMAIN portfolio.positions
            THEN LET pos == portfolio.positions[t]
                     q2 == pos.quantity + quantity
                 IN  [pos EXCEPT
                        !.quantity = q2,
                        !.avg_price = Rat(pos.avg_price.num * pos.quantity
                                            + cost * pos.avg_price.den,
                                          pos.avg_price.den * q2)]
            ELSE fresh
    IN  [portfolio EXCEPT
            !.bankroll = @ - cost,
            !.positions = SetKey(@, t, position),
            !.total_trades = @ + 1]

\* lines 205-260: the two buy branches differ only in the side
ApplyBuy(portfolio, decision, side, quantity, price) ==
    LET t == decision.market_ticker
        cost == quantity * price
        fresh == NewPosition(t, side, quantity, price, decision.timestamp)
        position ==
            IF t \in DOMAIN portfolio.positions /\ portfolio.positions[t].side = side
            THEN LET pos == portfolio.positions[t]
                     q2 == pos.quantity + quantity
                 IN  [pos EXCEPT
                        !.quantity = q2,
                        !.avg_price = Rat(pos.avg_price.num * pos.quantity
                                            + cost * pos.avg_price.den,
                                          pos.avg_price.den * q2)]
            ELSE fresh
    IN  [portfolio EXCEPT
            !.bankroll = @ - cost,
            !.positions = SetKey(@, t, position),
            !.total_trades = @ + 1]

\* the sell that deletes the position only below zero
ApplySellKeepEmpty(portfolio, decision, quantity, price) ==
    LET t == decision.market_ticker
    IN  IF t \in DOMAIN portfolio.positions /\ quantity > 0
        THEN LET position == portfolio.positions[t]
                 left == position.quantity - quantity
             IN  [portfolio EXCEPT
                    !.bankroll = @ + quantity * price,
                    !.winning_trades =
                        IF price * position.avg_price.den > position.avg_price.num
                        THEN @ + 1 ELSE @,
                    !.positions =
                        IF left < 0 THEN DelKey(@, t)
                        ELSE SetKey(@, t, [position EXCEPT !.quantity = left]),
                    !.total_trades = @ + 1]
        ELSE portfolio

\* the sell that counts a trade whenever there is a position
ApplySellCountsEmpty(portfolio, decision, quantity, price) ==
    LET t == decision.market_ticker
    IN  IF t \in DOMAIN portfolio.positions /\ quantity > 0
        THEN LET position == portfolio.positions[t]
                 left == position.quantity - quantity
             IN  [portfolio EXCEPT
                    !.bankroll = @ + quantity * price,
                    !.winning_trades =
                        IF price * position.avg_price.den > position.avg_price.num
                        THEN @ + 1 ELSE @,
                    !.positions =
                        IF left <= 0 THEN DelKey(@, t)
                        ELSE SetKey(@, t, [position EXCEPT !.quantity = left]),
                    !.total_trades = @ + 1]
        ELSE IF t \in DOMAIN portfolio.positions
        THEN [portfolio EXCEPT !.total_trades = @ + 1]
        ELSE portfolio

\* lines 262-277
ApplySell(portfolio, decision, quantity, price) ==
    LET t == decision.market_ticker
    IN  IF t \in DOMAIN portfolio.positions /\ quantity > 0
        THEN LET position == portfolio.positions[t]
                 left == position.quantity - quantity
             IN  [portfolio EXCEPT
                    !.bankroll = @ + quantity * price,
                    !.winning_trades =
                        IF price * position.avg_price.den > position.avg_price.num
                        THEN @ + 1 ELSE @,
                    !.positions =
                        IF left <= 0 THEN DelKey(@, t)
                        ELSE SetKey(@, t, [position EXCEPT !.quantity = left]),
                    !.total_trades = @ + 1]
        ELSE portfolio

TradeExecution(success, decision, quantity, price, cost, error) ==
    [success |-> success, model_id |-> decision.model_id,
     market_ticker |-> decision.market_ticker, action |-> decision.action,
     quantity |-> quantity, price |-> price, cost |-> cost, error |-> error]

\* execute_decision for a model that has a portfolio: the portfolio after
\* the call and the TradeExecution returned
ExecuteDecision(portfolio, decision, state) ==
    LET recorded == [portfolio EXCEPT !.decisions = @ + 1]
        isBuy == decision.action \in {BUY_YES, BUY_NO}
        isSell == decision.action \in {SELL_YES, SELL_NO}
        price == ValidPrice(QuotedPrice(decision.action, state))
        quantity ==
            IF isBuy
            THEN Min(decision.quantity, CalculateMaxQuantity(recorded, price))
            ELSE SellQuantity(recorded, decision)
        cost == quantity * price
    IN  IF decision.action = HOLD
        THEN [portfolio |-> recorded,
              execution |-> TradeExecution(TRUE, decision, 0, 0, 0, "")]
        ELSE IF isSell /\ ~HasPositionToSell(recorded, decision)
        THEN [portfolio |-> recorded,
              execution |-> TradeExecution(FALSE, decision, 0, 0, 0,
                                           "No position to sell")]
        ELSE IF isBuy /\ quantity <= 0
        THEN [portfolio |-> recorded,
              execution |-> TradeExecution(FALSE, decision, 0, price, 0,
                                           "Insufficient bankroll")]
        ELSE [portfolio |->
                CASE decision.action = BUY_YES ->
                        ApplyBuy(recorded, decision, "yes", quantity, price)
                  [] decision.action = BUY_NO ->
                        ApplyBuy(recorded, decision, "no", quantity, price)
                  [] OTHER -> ApplySell(recorded, decision, quantity, price),
              execution |-> TradeExecution(TRUE, decision, quantity, price, cost, "")]

----------------------------------------------------------------------------
(* Settlement (portfolio.py, settle_market) *)

\* the settlement value that pays the losing side
SettlementValueInverted(result, side) ==
    IF result = "yes"
    THEN (IF side = "yes" THEN 0 ELSE 100)
    ELSE (IF side = "no" THEN 0 ELSE 100)

SettlementValue(result, side) ==
    IF result = "yes"
    THEN (IF side = "yes" THEN 100 ELSE 0)
    ELSE (IF side = "no" THEN 100 ELSE 0)

\* the P&L settle_market reports for one portfolio
SettlementPnl(portfolio, market_ticker, result) ==
    IF market_ticker \notin DOMAIN portfolio.positions THEN RatOfInt(0)
    ELSE LET position == portfolio.positions[market_ticker]
             proceeds == position.quantity * SettlementValue(result, position.side)
         IN  Rat(proceeds * position.avg_price.den
                    - position.quantity * position.avg_price.num,
                 position.avg_price.den)

\* the settlement that pays out and keeps the position
SettlePortfolioKeepPosition(portfolio, market_ticker, result) ==
    IF market_ticker \notin DOMAIN portfolio.positions THEN portfolio
    ELSE LET position == portfolio.positions[market_ticker]
             proceeds == position.quantity * SettlementValue(result, position.side)
             pnl == SettlementPnl(portfolio, market_ticker, result)
         IN  [portfolio EXCEPT
                !.bankroll = @ + proceeds,
                !.winning_trades = IF pnl.num > 0 THEN @ + 1 ELSE @]

\* one iteration of the loop over portfolios in settle_market
SettlePortfolio(portfolio, market_ticker, result) ==
    IF market_ticker \notin DOMAIN portfolio.positions THEN portfolio
    ELSE LET position == portfolio.positions[market_ticker]
             proceeds == position.quantity * SettlementValue(result, position.side)
             pnl == SettlementPnl(portfolio, market_ticker, result)
         IN  [portfolio EXCEPT
                !.bankroll = @ + proceeds,
                !.winning_trades = IF pnl.num > 0 THEN @ + 1 ELSE @,
                !.positions = DelKey(@, market_ticker)]

----------------------------------------------------------------------------
(* Decision protocol: the oracle's answer (decision.py) *)

\* What achat_completion does is a record [kind, action, quantity,
\* probability_yes]: kind "raise" is a call that raised, "text" a response
\* with no JSON object in it, "object" a JSON object with these keys;
\* probability_yes is in percent.

\* str.lower() on an action string: the spellings with an upper-case letter
\* that the oracle answers are folded, every other string has none
Lower(s) ==
    CASE s = "BUY_YES" -> "buy_yes"
      [] s = "Buy_No" -> "buy_no"
      [] s = "Hold" -> "hold"
      [] s = "Sell_Yes" -> "sell_yes"
      [] s = "SELL_NO" -> "sell_no"
      [] s = "Sell" -> "sell"
      [] s = "SHORT" -> "short"
      [] OTHER -> s

\* parsed.get("action", "hold").lower() (line 215)
ActionStr(response) ==
    Lower(IF response.has_action THEN response.action ELSE "hold")

\* the lookup without the entry for "sell"
ActionMapFiveKeys(action_str) ==
    CASE action_str = "buy_yes" -> BUY_YES
      [] action_str = "buy_no" -> BUY_NO
      [] action_str = "hold" -> HOLD
      [] action_str = "sell_yes" -> SELL_YES
      [] action_str = "sell_no" -> SELL_NO
      [] OTHER -> HOLD

\* action_map.get(action_str, Action.HOLD) (lines 216-224)
ActionMap(action_str) ==
    CASE action_str = "buy_yes" -> BUY_YES
      [] action_str = "buy_no" -> BUY_NO
      [] action_str = "hold" -> HOLD
      [] action_str = "sell_yes" -> SELL_YES
      [] action_str = "sell_no" -> SELL_NO
      [] action_str = "sell" -> SELL_YES
      [] OTHER -> HOLD

\* the decision of a DecisionResult that has none
NoDecision ==
    [model_id |-> "", market_ticker |-> "", timestamp |-> 0, action |-> "",
     quantity |-> 0, probability_yes |-> 0]

\* raw_response is the kind of the response, "" after a call that raised
DecisionResult(success, decision, raw_response, error) ==
    [success |-> success, decision |-> decision,
     raw_response |-> raw_response, error |-> error]

\* _parse_decision (lines 203-252) for a response that did not raise
ParseDecision(response, model_id, market_ticker, timestamp) ==
    IF response.kind # "object"
    THEN DecisionResult(FALSE, NoDecision, response.kind,
                        "Failed to parse JSON from response")
    ELSE DecisionResult(TRUE,
            [model_id |-> model_id, market_ticker |-> market_ticker,
             timestamp |-> timestamp,
             action |-> ActionMap(ActionStr(response)),
             quantity |-> Max(0, Min(100, response.quantity)),
             probability_yes |-> Max(0, Min(100, response.probability_yes))],
            response.kind, "")

\* the get_decision that files every decision under the first market
GetDecisionFirstTicker(response, model_id, state) ==
    IF response.kind = "raise"
    THEN DecisionResult(FALSE, NoDecision, "", "oracle call failed")
    ELSE ParseDecision(response, model_id, "T1", state.current_timestamp)

\* the get_decision that answers an undecodable response with a hold
GetDecisionDefaultHold(response, model_id, state) ==
    IF response.kind = "raise"
    THEN DecisionResult(FALSE, NoDecision, "", "oracle call failed")
    ELSE ParseDecision([response EXCEPT !.kind = "object", !.action = "hold"],
                       model_id, state.ticker, state.current_timestamp)

\* get_decision (lines 296-349): whatever the call or the parsing raises
\* comes back as a failed DecisionResult with an empty raw_response
GetDecision(response, model_id, state) ==
    IF response.kind = "raise"
    THEN DecisionResult(FALSE, NoDecision, "", "oracle call failed")
    ELSE ParseDecision(response, model_id, state.ticker,
                       state.current_timestamp)

----------------------------------------------------------------------------
(* Scoring (scoring.py) *)

\* calculate_win_rate (lines 193-205), an exact fraction
CalculateWinRate(portfolio) ==
    IF portfolio.total_trades = 0 THEN RatOfInt(0)
    ELSE Rat(portfolio.winning_trades, portfolio.total_trades)

MarketPrediction(decision, actual_result) ==
    [model_id |-> decision.model_id, market_ticker |-> decision.market_ticker,
     probability_yes |-> decision.probability_yes,
     actual_result |-> actual_result, timestamp |-> decision.timestamp]

\* the record_prediction that skips a decision asking for no contracts
RecordPredictionSkipsZero(recorded, decision, actual_result) ==
    IF decision.action \in {BUY_YES, BUY_NO} /\ decision.quantity > 0
    THEN recorded (+) SetToBag({MarketPrediction(decision, actual_result)})
    ELSE recorded

\* record_prediction (lines 43-61)
RecordPrediction(recorded, decision, actual_result) ==
    IF decision.action \in {BUY_YES, BUY_NO}
    THEN recorded (+) SetToBag({MarketPrediction(decision, actual_result)})
    ELSE recorded

----------------------------------------------------------------------------
(* Inputs *)

Models == {"m1", "m2"}
Tickers == {"T1", "T2"}
Results == {"yes", "no"}
Quantities == {0, 100}

\* (max_position_pct in percent, initial_bankroll in cents)
Configs == { <<10, 10000>>, <<100, 50>> }

RawCandle(fmt, ts, bid, ask, close, volume, oi) ==
    [fmt |-> fmt, ts |-> ts, bid |-> bid, ask |-> ask, close |-> close,
     volume |-> volume, open_interest |-> oi]

ResolvedMarket(ticker, title, rules_secondary, result, price_history) ==
    [ticker |-> ticker, title |-> title, rules_primary |-> "rules",
     rules_secondary |-> rules_secondary, open_time |-> "open",
     close_time |-> "close", result |-> result,
     price_history |-> price_history]

\* the two markets of the ledger runs: T1 quotes 38/40, then nothing (nulls
\* in the nested format); T2 quotes 60/62
LedgerMarkets ==
    << ResolvedMarket("T1", "Q1", "", "yes",
         << RawCandle("flat", 1, 38, 40, 39, 10, 5),
            RawCandle("nested", 2, Null, Null, Null, 0, Null) >>),
       ResolvedMarket("T2", "Q2", "more", "no",
         << RawCandle("flat", 1, 60, 62, 61, 7, 9) >>) >>

\* candlesticks without their timestamp; a history stamps them 1, 2, ..
Shapes ==
    { RawCandle("flat", 0, 38, 40, 39, 10, 5),
      RawCandle("nested", 0, Null, Null, Null, 0, Null),
      RawCandle("flat", 0, 60, 62, 0, 7, 9) }

Stamp(shapes, from) ==
    [j \in 1..Len(shapes) |-> [shapes[j] EXCEPT !.ts = from + j]]

ShapeSeqs(lo, hi) == UNION { [1..n -> Shapes] : n \in lo..hi }

Histories == { Stamp(s, 0) : s \in ShapeSeqs(1, MaxCandles) }

MarketOf(ticker) ==
    CHOOSE m \in { markets[j] : j \in 1..Len(markets) } : m.ticker = ticker

NoLast ==
    [op |-> "none", model_id |-> "", market_ticker |-> "", action |-> "",
     requested |-> 0, result |-> "",
     execution |-> [success |-> FALSE, model_id |-> "", market_ticker |-> "",
                    action |-> "", quantity |-> 0, price |-> 0, cost |-> 0,
                    error |-> ""],
     pnl_by_model |-> [m \in Models |-> RatOfInt(0)]]

NoPrompt == BuildMarketPrompt(NoMarketState, NewPortfolio(0))

\* config.models, in order
ModelOrder == << "m1", "m2" >>

\* SimulationConfig.min_volume
MinVolume == 1000

\* a record of the markets file
RawMarket(ticker, title, rules_secondary, volume, result, price_history) ==
    [ticker |-> ticker, title |-> title, rules_primary |-> "rules",
     rules_secondary |-> rules_secondary, volume |-> volume,
     open_time |-> "open", close_time |-> "close", result |-> result,
     price_history |-> price_history]

GoodT1 == RawMarket("T1", "Q1", "", 5000, "yes", LedgerMarkets[1].price_history)
GoodT2 == RawMarket("T2", "Q2", "more", 5000, "no", LedgerMarkets[2].price_history)
\* below min_volume
ThinT1 == [GoodT1 EXCEPT !.volume = 10]
\* without a result
UnresolvedT2 == [GoodT2 EXCEPT !.result = ""]
\* with a candlestick that cannot be parsed
ScalarT2 ==
    [GoodT2 EXCEPT !.price_history = << RawCandle("scalar", 1, 60, 62, 61, 7, 9) >>]
\* with candlestick timestamps that go backwards
UnorderedT2 ==
    [GoodT2 EXCEPT !.price_history =
        << RawCandle("flat", 2, 60, 62, 61, 7, 9),
           RawCandle("flat", 1, 60, 62, 61, 7, 9) >>]

MarketsFile(readable, records) == [readable |-> readable, markets |-> records]

MarketFiles ==
    { MarketsFile(FALSE, <<>>),
      MarketsFile(TRUE, << GoodT1, GoodT2 >>),
      MarketsFile(TRUE, << GoodT1, ScalarT2 >>),
      MarketsFile(TRUE, << ThinT1, UnorderedT2 >>),
      MarketsFile(TRUE, << ThinT1, UnresolvedT2 >>) }

\* an answer of the oracle: kind "raise" for a call that raises, "text" for
\* a content without a JSON object, "object" for a JSON object with the keys
\* quantity, probability_yes and, with has_action, action
OracleResponse(kind, action, quantity) ==
    [kind |-> kind, has_action |-> TRUE, action |-> action,
     quantity |-> quantity, probability_yes |-> 70]

\* what the oracle may answer at a decision point of a run
Responses ==
    { OracleResponse("raise", "", 0),
      OracleResponse("text", "", 0),
      OracleResponse("object", "hold", 0),
      OracleResponse("object", "buy_yes", 100),
      OracleResponse("object", "buy_yes", 0),
      OracleResponse("object", "sell_yes", 100) }

\* SimulationTracer.trace after construction (tracing.py:155-184)
NewTrace ==
    [status |-> "running", llm_calls |-> 0, parse_failures |-> 0,
     trade_executions |-> 0, market_states |-> 0, market_settlements |-> 0,
     saved |-> 0]

NoResult == DecisionResult(FALSE, NoDecision, "", "")

\* the stream_updates generator before its first step; pc "off" when no
\* client subscribed
NewStream(state) ==
    [pc |-> state, last_markets_completed |-> -1, emitted |-> <<>>]

NoHist ==
    [stop_observed |-> FALSE, returned |-> {}, failed |-> {}, applied |-> {},
     ran |-> {}, response |-> OracleResponse("", "", 0),
     settled |-> <<>>, raised |-> FALSE,
     at_raise |-> [portfolios |-> [m \in Models |-> NewPortfolio(0)],
                   all_decisions |-> 0, market_results |-> <<>>],
     moves |-> [m \in Models |-> 0],
     broadcast |-> {},
     buying |-> [m \in Models |-> [t \in Tickers |-> Null]],
     before |-> [all_decisions |-> 0, predictions |-> EmptyBag,
                 tracer |-> NewTrace, status |-> "initializing"]]

\* hist.buying[m][t] is the bankroll agent m had before the first buy of its
\* current sequence of buys in market t, Null outside such a sequence: an
\* executed buy opens a sequence, an executed sell and a settlement end it
BuyingAfterExecution(buying, portfolio, execution) ==
    LET m == execution.model_id
        t == execution.market_ticker
    IN  IF ~execution.success \/ execution.action = HOLD THEN buying
        ELSE IF execution.action \in {BUY_YES, BUY_NO}
        THEN (IF buying[m][t] = Null
              THEN [buying EXCEPT ![m][t] = portfolio.bankroll]
              ELSE buying)
        ELSE [buying EXCEPT ![m][t] = Null]

BuyingAfterSettlement(buying, market_ticker) ==
    [m \in Models |-> [buying[m] EXCEPT ![market_ticker] = Null]]

\* TruthBenchSimulation after __init__ (simulation.py:84-96)
Constructed ==
    /\ status = "initializing"
    /\ error_message = ""
    /\ stop_requested = FALSE
    /\ markets_completed = 0
    /\ all_decisions = 0
    /\ market_results = <<>>
    /\ predictions = EmptyBag
    /\ tracer = NewTrace
    /\ scores = <<>>
    /\ pc = "start"
    /\ market_idx = 0
    /\ dp_idx = 0
    /\ model_idx = 0
    /\ decision_result = NoResult
    /\ exception = ""
    /\ hist = NoHist

----------------------------------------------------------------------------
(* Ledger runs: any sequence of decisions and settlements *)

Init ==
    /\ markets = LedgerMarkets
    /\ \E c \in Configs : max_position_pct = c[1] /\ initial_bankroll = c[2]
    /\ portfolios = [m \in Models |-> NewPortfolio(initial_bankroll)]
    /\ market_state = NoMarketState
    /\ decision_points = <<>>
    /\ num_points = 0
    /\ user_prompt = NoPrompt
    /\ last = NoLast
    /\ pre = portfolios
    /\ prev = <<"none", "">>
    /\ ops = 0
    /\ markets_file = MarketsFile(TRUE, <<>>)
    /\ stream = NewStream("off")
    /\ Constructed

\* one decision of an agent on the ledger: the prompt is built from the
\* portfolio before the trade (simulation.py:251), then the decision is
\* executed (simulation.py:294-297)
Decide(model_id, ticker, timestep_idx, action, quantity) ==
    /\ ops < MaxOps
    /\ LET state == GetMarketStateAtTimestep(MarketOf(ticker), timestep_idx)
           decision == [model_id |-> model_id, market_ticker |-> state.ticker,
                        timestamp |-> state.current_timestamp,
                        action |-> action, quantity |-> quantity,
                        probability_yes |-> 50]
           r == ExecuteDecision(portfolios[model_id], decision, state)
       IN  /\ market_state' = state
           /\ user_prompt' = BuildMarketPrompt(state, portfolios[model_id])
           /\ portfolios' = [portfolios EXCEPT ![model_id] = r.portfolio]
           /\ last' = [NoLast EXCEPT !.op = "execute", !.model_id = model_id,
                         !.market_ticker = state.ticker, !.action = action,
                         !.requested = quantity, !.execution = r.execution]
           /\ hist' = [hist EXCEPT
                         !.moves[model_id] =
                            IF r.execution.quantity > 0 THEN @ + 1 ELSE @,
                         !.buying = BuyingAfterExecution(@,
                                        portfolios[model_id], r.execution)]
    /\ pre' = portfolios
    /\ prev' = <<last.op, last.market_ticker>>
    /\ ops' = ops + 1
    /\ UNCHANGED <<markets, max_position_pct, initial_bankroll,
                   decision_points, num_points, simVars, loopVars,
                   all_decisions, predictions, stream>>

\* settle_market(market_ticker, result)
Settle(market_ticker, result) ==
    /\ ops < MaxOps
    /\ portfolios' = [m \in Models |->
                        SettlePortfolio(portfolios[m], market_ticker, result)]
    /\ last' = [NoLast EXCEPT !.op = "settle", !.market_ticker = market_ticker,
                  !.result = result,
                  !.pnl_by_model = [m \in Models |->
                        SettlementPnl(portfolios[m], market_ticker, result)]]
    /\ pre' = portfolios
    /\ prev' = <<last.op, last.market_ticker>>
    /\ ops' = ops + 1
    /\ hist' = [hist EXCEPT
                  !.buying = BuyingAfterSettlement(@, market_ticker)]
    /\ UNCHANGED <<markets, max_position_pct, initial_bankroll, market_state,
                   decision_points, num_points, user_prompt, simVars,
                   loopVars, all_decisions, predictions, stream>>

DecideStep ==
    \E model_id \in Models, ticker \in Tickers, action \in Action,
       quantity \in Quantities :
        \E timestep_idx \in 0..(Len(MarketOf(ticker).price_history) - 1) :
            Decide(model_id, ticker, timestep_idx, action, quantity)

SettleStep ==
    \E market_ticker \in Tickers, result \in Results :
        Settle(market_ticker, result)

Next == DecideStep \/ SettleStep

Spec == Init /\ [][Next]_vars

----------------------------------------------------------------------------
(* Replay runs: one loaded market, any snapshot and any sampling *)

ReplayInit ==
    /\ \E h \in Histories, r \in Results :
         markets = << ResolvedMarket("T1", "Q1", "", r, h) >>
    /\ max_position_pct = 10
    /\ initial_bankroll = 10000
    /\ portfolios = [m \in Models |-> NewPortfolio(initial_bankroll)]
    /\ market_state = NoMarketState
    /\ decision_points = <<>>
    /\ num_points = 0
    /\ user_prompt = NoPrompt
    /\ last = NoLast
    /\ pre = portfolios
    /\ prev = <<"none", "">>
    /\ ops = 0
    /\ markets_file = MarketsFile(TRUE, <<>>)
    /\ stream = NewStream("off")
    /\ Constructed

SnapshotAt(timestep_idx) ==
    /\ market_state' = GetMarketStateAtTimestep(markets[1], timestep_idx)
    /\ last' = [NoLast EXCEPT !.op = "snapshot", !.requested = timestep_idx]
    /\ decision_points' = <<>>
    /\ num_points' = 0
    /\ UNCHANGED <<markets, max_position_pct, initial_bankroll, portfolios,
                   user_prompt, pre, prev, ops, simVars, loopVars,
                   all_decisions, predictions, stream, hist>>

\* get_decision_points(markets[0], k): it returns the states, or raises
SampleDecisionPoints(k) ==
    /\ IF GetDecisionPointsRaises(markets[1], k)
       THEN /\ decision_points' = <<>>
            /\ last' = [NoLast EXCEPT !.op = "raise", !.requested = k]
       ELSE /\ decision_points' = GetDecisionPoints(markets[1], k)
            /\ last' = [NoLast EXCEPT !.op = "sample", !.requested = k]
    /\ num_points' = k
    /\ market_state' = NoMarketState
    /\ UNCHANGED <<markets, max_position_pct, initial_bankroll, portfolios,
                   user_prompt, pre, prev, ops, simVars, loopVars,
                   all_decisions, predictions, stream, hist>>

SnapshotStep ==
    \E timestep_idx \in 0..(Len(markets[1].price_history) - 1) :
        SnapshotAt(timestep_idx)

SampleStep == \E k \in 0..MaxPoints : SampleDecisionPoints(k)

ReplayNext == SnapshotStep \/ SampleStep

SpecReplay == ReplayInit /\ [][ReplayNext]_vars

----------------------------------------------------------------------------
(* Parsing runs: get_decision on any answer of the oracle *)

\* the action strings an answer may carry
ActionStrings ==
    { "buy_yes", "buy_no", "hold", "sell_yes", "sell_no", "sell",
      "BUY_YES", "Buy_No", "Hold", "Sell_Yes", "SELL_NO", "Sell",
      "short", "SHORT", "buy", "" }

ParseQuantities == { -5, 0, 7, 100, 250 }

ParseResponses ==
    { OracleResponse("raise", "", 0), OracleResponse("text", "", 0) }
    \cup { OracleResponse("object", a, q) :
                a \in ActionStrings, q \in ParseQuantities }
    \cup { [OracleResponse("object", "", q) EXCEPT !.has_action = FALSE] :
                q \in ParseQuantities }

ParseInit ==
    /\ markets = LedgerMarkets
    /\ max_position_pct = 10
    /\ initial_bankroll = 10000
    /\ portfolios = [m \in Models |-> NewPortfolio(initial_bankroll)]
    /\ market_state = GetMarketStateAtTimestep(markets[1], 0)
    /\ decision_points = <<>>
    /\ num_points = 0
    /\ user_prompt = NoPrompt
    /\ last = NoLast
    /\ pre = portfolios
    /\ prev = <<"none", "">>
    /\ ops = 0
    /\ markets_file = MarketsFile(TRUE, <<>>)
    /\ stream = NewStream("off")
    /\ Constructed

\* one call of get_decision (decision.py:262-349) with the oracle's answer
Parse(model_id, response) ==
    /\ decision_result' = GetDecision(response, model_id, market_state)
    /\ hist' = [hist EXCEPT !.response = response,
                            !.returned = {model_id}]
    /\ UNCHANGED <<ledgerVars, simVars, pc, market_idx, dp_idx, model_idx,
                   exception, all_decisions, predictions, stream>>

ParseStep ==
    \E model_id \in Models, response \in ParseResponses :
        Parse(model_id, response)

ParseNext == ParseStep

SpecParse == ParseInit /\ [][ParseNext]_vars

----------------------------------------------------------------------------
(* The orchestrator: run(), stop() and stream_updates() (simulation.py) *)

\* run() is a coroutine: stop() and the stream run only while it is
\* suspended, that is before it starts, at the await of an oracle call
\* (line 255), at the sleep between markets (line 372) and after it ended
AwaitPoints == {"start", "await", "sleep", "done", "failed"}

RunInit ==
    /\ markets = <<>>
    /\ markets_file \in MarketFiles
    /\ max_position_pct = 10
    /\ initial_bankroll = 10000
    /\ portfolios = [m \in Models |-> NewPortfolio(initial_bankroll)]
    /\ market_state = NoMarketState
    /\ decision_points = <<>>
    /\ num_points = 2
    /\ user_prompt = NoPrompt
    /\ last = NoLast
    /\ pre = portfolios
    /\ prev = <<"none", "">>
    /\ ops = 0
    /\ stream = NewStream("off")
    /\ Constructed

Before == [all_decisions |-> all_decisions, predictions |-> predictions,
           tracer |-> tracer, status |-> status]

\* raise: control passes to the except clause of line 415
Raise(message) ==
    /\ exception' = message
    /\ pc' = "except"
    /\ hist' = [hist EXCEPT
                  !.raised = TRUE,
                  !.at_raise = [portfolios |-> portfolios,
                                all_decisions |-> all_decisions,
                                market_results |-> market_results],
                  !.before = Before]

\* lines 187-189: the status is set and broadcast before anything is loaded
Start ==
    /\ pc = "start"
    /\ status' = "running"
    /\ pc' = "load"
    /\ hist' = [hist EXCEPT !.before = Before,
                            !.broadcast = @ \cup {"running"}]
    /\ UNCHANGED <<ledgerVars, markets_file, error_message, stop_requested,
                   markets_completed, market_results, tracer, scores,
                   market_idx, dp_idx, model_idx, decision_result, exception,
                   all_decisions, predictions, stream>>

\* lines 194-200: load_markets, which raises on a file it cannot read, and
\* the check for zero markets
Load ==
    /\ pc = "load"
    /\ IF ~markets_file.readable
       THEN /\ Raise("cannot read the markets file")
            /\ UNCHANGED <<markets, market_idx>>
       ELSE LET loaded == LoadMarkets(markets_file.markets, MinVolume, Null,
                                      markets)
            IN  /\ markets' = loaded
                /\ IF Len(loaded) = 0
                   THEN /\ Raise("No markets loaded - check file path and filters")
                        /\ UNCHANGED market_idx
                   ELSE /\ pc' = "market"
                        /\ market_idx' = 1
                        /\ hist' = [hist EXCEPT
                                      !.before = Before,
                                      !.broadcast = @ \cup {status}]
                        /\ UNCHANGED exception
    /\ UNCHANGED <<max_position_pct, initial_bankroll, portfolios,
                   market_state, decision_points, num_points, user_prompt,
                   last, pre, prev, ops, simVars, dp_idx, model_idx,
                   decision_result, all_decisions, predictions, stream>>

\* lines 203-216: the head of the loop over markets
NextMarket ==
    /\ pc = "market"
    /\ IF market_idx > Len(markets)
       THEN /\ pc' = "finish"
            /\ hist' = [hist EXCEPT !.before = Before]
            /\ UNCHANGED <<status, decision_points, dp_idx, exception>>
       ELSE IF stop_requested
       THEN /\ status' = "paused"
            /\ pc' = "finish"
            /\ hist' = [hist EXCEPT !.stop_observed = TRUE, !.before = Before]
            /\ UNCHANGED <<decision_points, dp_idx, exception>>
       ELSE IF GetDecisionPointsRaises(markets[market_idx], num_points)
       THEN /\ Raise("'int' object has no attribute 'get'")
            /\ UNCHANGED <<status, decision_points, dp_idx>>
       ELSE /\ decision_points' =
                    GetDecisionPoints(markets[market_idx], num_points)
            /\ dp_idx' = 1
            /\ pc' = "point"
            /\ hist' = [hist EXCEPT !.before = Before]
            /\ UNCHANGED <<status, exception>>
    /\ UNCHANGED <<markets, max_position_pct, initial_bankroll, portfolios,
                   market_state, num_points, user_prompt, last, pre, prev,
                   ops, markets_file, error_message, stop_requested,
                   markets_completed, market_results, tracer, scores,
                   market_idx, model_idx, decision_result, all_decisions,
                   predictions, stream>>

\* lines 219-242: the head of the loop over decision points
NextPoint ==
    /\ pc = "point"
    /\ IF dp_idx > Len(decision_points)
       THEN /\ pc' = "settle"
            /\ hist' = [hist EXCEPT !.before = Before]
            /\ UNCHANGED <<market_state, tracer, model_idx>>
       ELSE IF stop_requested
       THEN /\ pc' = "settle"
            /\ hist' = [hist EXCEPT !.stop_observed = TRUE, !.before = Before]
            /\ UNCHANGED <<market_state, tracer, model_idx>>
       ELSE /\ market_state' = decision_points[dp_idx]
            /\ tracer' = [tracer EXCEPT !.market_states = @ + 1]
            /\ model_idx' = 1
            /\ pc' = "model"
            /\ hist' = [hist EXCEPT !.returned = {}, !.failed = {},
                                     !.applied = {}, !.before = Before]
    /\ UNCHANGED <<markets, max_position_pct, initial_bankroll, portfolios,
                   decision_points, num_points, user_prompt, last, pre, prev,
                   ops, markets_file, status, error_message, stop_requested,
                   markets_completed, market_results, scores, market_idx,
                   dp_idx, decision_result, exception, all_decisions,
                   predictions, stream>>

\* lines 245-255 and, after the last model, 340-341: the head of the loop
\* over config.models; the prompt is built and the oracle is called
NextModel ==
    /\ pc = "model"
    /\ IF model_idx > Len(ModelOrder)
       THEN /\ dp_idx' = dp_idx + 1
            /\ pc' = "point"
            /\ hist' = [hist EXCEPT !.ran = @ \cup {<<market_idx, dp_idx>>},
                                     !.broadcast = @ \cup {status},
                                     !.before = Before]
            /\ UNCHANGED user_prompt
       ELSE /\ user_prompt' = BuildMarketPrompt(market_state,
                                    portfolios[ModelOrder[model_idx]])
            /\ pc' = "await"
            /\ hist' = [hist EXCEPT !.before = Before]
            /\ UNCHANGED dp_idx
    /\ UNCHANGED <<markets, max_position_pct, initial_bankroll, portfolios,
                   market_state, decision_points, num_points, last, pre,
                   prev, ops, simVars, market_idx, model_idx, decision_result,
                   exception, all_decisions, predictions, stream>>

\* lines 255-277: the oracle call returns and is traced
OracleReturns(response) ==
    /\ pc = "await"
    /\ LET model_id == ModelOrder[model_idx]
           r == GetDecision(response, model_id, market_state)
       IN  /\ decision_result' = r
           /\ tracer' = [tracer EXCEPT
                           !.llm_calls = @ + 1,
                           !.parse_failures = IF r.success THEN @ ELSE @ + 1]
           /\ hist' = [hist EXCEPT
                         !.returned = @ \cup {model_id},
                         !.failed = IF r.success THEN @ ELSE @ \cup {model_id},
                         !.response = response,
                         !.before = Before]
    /\ pc' = "apply"
    /\ UNCHANGED <<ledgerVars, markets_file, status, error_message,
                   stop_requested, markets_completed, market_results, scores,
                   market_idx, dp_idx, model_idx, exception, all_decisions,
                   predictions, stream>>

\* lines 279-337: a successful result is executed, traced, recorded for
\* scoring and tracked; a failed one is skipped
ApplyResult ==
    /\ pc = "apply"
    /\ LET model_id == ModelOrder[model_idx]
           decision == decision_result.decision
       IN  IF decision_result.success /\ decision # NoDecision
           THEN LET r == ExecuteDecision(portfolios[model_id], decision,
                                         market_state)
                IN  /\ portfolios' = [portfolios EXCEPT ![model_id] = r.portfolio]
                    /\ tracer' = [tracer EXCEPT !.trade_executions = @ + 1]
                    /\ predictions' = RecordPrediction(predictions, decision,
                                            markets[market_idx].result)
                    /\ all_decisions' = all_decisions + 1
                    /\ last' = [NoLast EXCEPT
                                  !.op = "execute", !.model_id = model_id,
                                  !.market_ticker = decision.market_ticker,
                                  !.action = decision.action,
                                  !.requested = decision.quantity,
                                  !.execution = r.execution]
                    /\ hist' = [hist EXCEPT
                                  !.applied = @ \cup {model_id},
                                  !.moves[model_id] =
                                     IF r.execution.quantity > 0
                                     THEN @ + 1 ELSE @,
                                  !.buying = BuyingAfterExecution(@,
                                        portfolios[model_id], r.execution),
                                  !.before = Before]
           ELSE /\ last' = [NoLast EXCEPT
                              !.op = "skip", !.model_id = model_id,
                              !.market_ticker = market_state.ticker]
                /\ hist' = [hist EXCEPT !.before = Before]
                /\ UNCHANGED <<portfolios, tracer, predictions, all_decisions>>
    /\ pre' = portfolios
    /\ prev' = <<last.op, last.market_ticker>>
    /\ model_idx' = model_idx + 1
    /\ pc' = "model"
    /\ UNCHANGED <<markets, max_position_pct, initial_bankroll, market_state,
                   decision_points, num_points, user_prompt, ops,
                   markets_file, status, error_message, stop_requested,
                   markets_completed, market_results, scores, market_idx,
                   dp_idx, decision_result, exception, stream>>

\* lines 344-369: the market is settled and counted
SettleMarket ==
    /\ pc = "settle"
    /\ LET market == markets[market_idx]
           pnl_by_model == [m \in Models |->
                SettlementPnl(portfolios[m], market.ticker, market.result)]
       IN  /\ portfolios' = [m \in Models |->
                SettlePortfolio(portfolios[m], market.ticker, market.result)]
           /\ last' = [NoLast EXCEPT !.op = "settle",
                         !.market_ticker = market.ticker,
                         !.result = market.result,
                         !.pnl_by_model = pnl_by_model]
           /\ market_results' = Append(market_results,
                    [ticker |-> market.ticker, result |-> market.result,
                     pnl_by_model |-> pnl_by_model])
    /\ pre' = portfolios
    /\ prev' = <<last.op, last.market_ticker>>
    /\ tracer' = [tracer EXCEPT !.market_settlements = @ + 1]
    /\ markets_completed' = markets_completed + 1
    /\ hist' = [hist EXCEPT !.settled = Append(@, market_idx),
                             !.buying = BuyingAfterSettlement(@,
                                            markets[market_idx].ticker),
                             !.broadcast = @ \cup {status},
                             !.before = Before]
    /\ pc' = "sleep"
    /\ UNCHANGED <<markets, max_position_pct, initial_bankroll, market_state,
                   decision_points, num_points, user_prompt, ops,
                   markets_file, status, error_message, stop_requested,
                   scores, market_idx, dp_idx, model_idx, decision_result,
                   exception, all_decisions, predictions, stream>>

\* line 372, and the step of the loop over markets
Sleep ==
    /\ pc = "sleep"
    /\ market_idx' = market_idx + 1
    /\ pc' = "market"
    /\ hist' = [hist EXCEPT !.before = Before]
    /\ UNCHANGED <<ledgerVars, simVars, dp_idx, model_idx, decision_result,
                   exception, all_decisions, predictions, stream>>

\* lines 375-380: reached when the loop over markets ends or is left
Finish ==
    /\ pc = "finish"
    /\ status' = "completed"
    /\ scores' = [m \in Models |->
                    [final_bankroll |-> portfolios[m].bankroll,
                     total_trades |-> portfolios[m].total_trades]]
    /\ pc' = "save"
    /\ hist' = [hist EXCEPT !.before = Before]
    /\ UNCHANGED <<ledgerVars, markets_file, error_message, stop_requested,
                   markets_completed, market_results, tracer, market_idx,
                   dp_idx, model_idx, decision_result, exception,
                   all_decisions, predictions, stream>>

\* lines 387-413: the trace is saved, which raises when the file cannot be
\* written, and the result is returned
SaveTrace(written) ==
    /\ pc = "save"
    /\ IF written
       THEN /\ tracer' = [tracer EXCEPT !.status = "completed",
                                         !.saved = @ + 1]
            /\ pc' = "done"
            /\ hist' = [hist EXCEPT !.before = Before,
                                    !.broadcast = @ \cup {status}]
            /\ UNCHANGED exception
       ELSE /\ tracer' = [tracer EXCEPT !.status = "completed"]
            /\ Raise("cannot write the trace")
    /\ UNCHANGED <<ledgerVars, markets_file, status, error_message,
                   stop_requested, markets_completed, market_results, scores,
                   market_idx, dp_idx, model_idx, decision_result,
                   all_decisions, predictions, stream>>

\* the except clause that leaves the status as it was
HandleExceptionKeepStatus(message) ==
    /\ status' = status
    /\ error_message' = message
    /\ tracer' = [tracer EXCEPT !.status = "error"]

\* lines 415-421
HandleException(message) ==
    /\ status' = "error"
    /\ error_message' = message
    /\ tracer' = [tracer EXCEPT !.status = "error"]

Except ==
    /\ pc = "except"
    /\ HandleException(exception)
    /\ pc' = "errsave"
    /\ hist' = [hist EXCEPT !.before = Before]
    /\ UNCHANGED <<ledgerVars, markets_file, stop_requested,
                   markets_completed, market_results, scores, market_idx,
                   dp_idx, model_idx, decision_result, exception,
                   all_decisions, predictions, stream>>

\* lines 422-429: the trace is saved inside its own try, then the exception
\* is raised again to the caller of run()
SaveErrorTrace(written) ==
    /\ pc = "errsave"
    /\ tracer' = IF written THEN [tracer EXCEPT !.saved = @ + 1] ELSE tracer
    /\ pc' = "failed"
    /\ hist' = [hist EXCEPT !.before = Before,
                            !.broadcast = @ \cup {status}]
    /\ UNCHANGED <<ledgerVars, markets_file, status, error_message,
                   stop_requested, markets_completed, market_results, scores,
                   market_idx, dp_idx, model_idx, decision_result, exception,
                   all_decisions, predictions, stream>>

\* stop() (lines 168-171)
Stop ==
    /\ pc \in AwaitPoints
    /\ ~stop_requested
    /\ stop_requested' = TRUE
    /\ UNCHANGED <<ledgerVars, markets_file, status, error_message,
                   markets_completed, market_results, tracer, scores,
                   loopVars, all_decisions, predictions, stream, hist>>

\* the snapshot get_status gives the stream
StatusSnapshot ==
    [status |-> status, markets_completed |-> markets_completed]

\* one turn of the loop of stream_updates (lines 439-445), taken when the
\* generator is resumed and its sleep has elapsed
StreamPoll ==
    /\ pc \in AwaitPoints
    /\ stream.pc = "poll"
    /\ status \in {"initializing", "running"}
    /\ markets_completed # stream.last_markets_completed
    /\ stream' = [stream EXCEPT
                    !.last_markets_completed = markets_completed,
                    !.emitted = Append(@, StatusSnapshot)]
    /\ UNCHANGED <<ledgerVars, simVars, loopVars, all_decisions, predictions,
                   hist>>

\* lines 447-449: the loop is left and the final status is yielded
StreamFinal ==
    /\ pc \in AwaitPoints
    /\ stream.pc = "poll"
    /\ status \notin {"initializing", "running"}
    /\ stream' = [stream EXCEPT !.pc = "done",
                                 !.emitted = Append(@, StatusSnapshot)]
    /\ UNCHANGED <<ledgerVars, simVars, loopVars, all_decisions, predictions,
                   hist>>

OracleStep == \E response \in Responses : OracleReturns(response)

SaveTraceStep == \E written \in BOOLEAN : SaveTrace(written)

SaveErrorTraceStep == \E written \in BOOLEAN : SaveErrorTrace(written)

RunNext ==
    \/ Start
    \/ Load
    \/ NextMarket
    \/ NextPoint
    \/ NextModel
    \/ OracleStep
    \/ ApplyResult
    \/ SettleMarket
    \/ Sleep
    \/ Finish
    \/ SaveTraceStep
    \/ Except
    \/ SaveErrorTraceStep
    \/ Stop

SpecRun == RunInit /\ [][RunNext]_vars

----------------------------------------------------------------------------
(* Runs with a client on the update stream; the oracle holds or fails *)

StreamInit ==
    /\ markets = <<>>
    /\ markets_file \in MarketFiles
    /\ max_position_pct = 10
    /\ initial_bankroll = 10000
    /\ portfolios = [m \in Models |-> NewPortfolio(initial_bankroll)]
    /\ market_state = NoMarketState
    /\ decision_points = <<>>
    /\ num_points = 2
    /\ user_prompt = NoPrompt
    /\ last = NoLast
    /\ pre = portfolios
    /\ prev = <<"none", "">>
    /\ ops = 0
    /\ stream = NewStream("poll")
    /\ Constructed

StreamResponses ==
    { OracleResponse("raise", "", 0), OracleResponse("object", "hold", 0) }

StreamOracleStep == \E response \in StreamResponses : OracleReturns(response)

StreamNext ==
    \/ Start
    \/ Load
    \/ NextMarket
    \/ NextPoint
    \/ NextModel
    \/ StreamOracleStep
    \/ ApplyResult
    \/ SettleMarket
    \/ Sleep
    \/ Finish
    \/ SaveTraceStep
    \/ Except
    \/ SaveErrorTraceStep
    \/ Stop
    \/ StreamPoll
    \/ StreamFinal

SpecStream == StreamInit /\ [][StreamNext]_vars

----------------------------------------------------------------------------
(* Properties of the ledger *)

IsBuy(action) == action \in {BUY_YES, BUY_NO}
IsSell(action) == action \in {SELL_YES, SELL_NO}
SideOf(action) == IF action \in {BUY_YES, SELL_YES} THEN "yes" ELSE "no"

ExecutedBuy ==
    last.op = "execute" /\ IsBuy(last.action) /\ last.execution.success

ExecutedSell ==
    last.op = "execute" /\ IsSell(last.action) /\ last.execution.success

\* the quantity an agent holds in a ticker, 0 without a position
Held(portfolio, ticker) ==
    IF ticker \in DOMAIN portfolio.positions
    THEN portfolio.positions[ticker].quantity
    ELSE 0

\* C1: every executed buy debits exactly quantity * price, and the quantity
\* is at most floor(bankroll_before * fraction / price) and at most the
\* requested quantity; bankroll 10,000 at 10%, 100 requested at ask 40
\* executes 25 and leaves 9,000.
C1_BuyDebitAndCap ==
    ExecutedBuy =>
        LET e == last.execution
            before == pre[last.model_id].bankroll
            after == portfolios[last.model_id].bankroll
        IN  /\ after = before - e.quantity * e.price
            /\ e.quantity <= (before * max_position_pct) \div (100 * e.price)
            /\ e.quantity <= last.requested
            /\ (before = 10000 /\ max_position_pct = 10 /\ e.price = 40
                    /\ last.requested = 100)
                => (e.quantity = 25 /\ after = 9000)

C1_Witness ==
    /\ ExecutedBuy
    /\ last.action = BUY_YES
    /\ market_state.current_yes_ask = 40
    /\ pre[last.model_id].bankroll = 10000
    /\ max_position_pct = 10
    /\ last.requested = 100
    /\ last.execution.quantity = 25
    /\ portfolios[last.model_id].bankroll = 9000

\* C2: no agent's bankroll is ever negative.
C2_BankrollNonNegative ==
    \A m \in Models : portfolios[m].bankroll >= 0

\* a buy that spent the whole bankroll
C2_Witness ==
    /\ ExecutedBuy
    /\ pre[last.model_id].bankroll > 0
    /\ portfolios[last.model_id].bankroll = 0

\* C3: every position in a positions map has quantity > 0; an executed buy
\* has quantity > 0 and creates or grows the position, and a sell that
\* brings the quantity to 0 removes the position in the same step.
C3_PositionsArePositive ==
    /\ \A m \in Models : \A t \in DOMAIN portfolios[m].positions :
            portfolios[m].positions[t].quantity > 0
    /\ ExecutedBuy =>
            /\ last.execution.quantity > 0
            /\ last.market_ticker \in DOMAIN portfolios[last.model_id].positions
            /\ Held(portfolios[last.model_id], last.market_ticker)
                    >= last.execution.quantity
    /\ (ExecutedSell /\ last.execution.quantity
                          = Held(pre[last.model_id], last.market_ticker))
            => last.market_ticker \notin DOMAIN portfolios[last.model_id].positions

\* a sell of the whole holding
C3_Witness ==
    /\ ExecutedSell
    /\ last.execution.quantity > 0
    /\ last.execution.quantity = Held(pre[last.model_id], last.market_ticker)
    /\ last.market_ticker \notin DOMAIN portfolios[last.model_id].positions

\* C4: a sell executed against an existing position sells at most the held
\* quantity, credits quantity * price, reduces the position by the quantity
\* and removes the position iff nothing is left.
C4_SellCreditAndCap ==
    ExecutedSell =>
        LET e == last.execution
            t == last.market_ticker
            before == pre[last.model_id]
            after == portfolios[last.model_id]
        IN  /\ t \in DOMAIN before.positions
            /\ e.quantity <= before.positions[t].quantity
            /\ after.bankroll = before.bankroll + e.quantity * e.price
            /\ Held(after, t) = before.positions[t].quantity - e.quantity
            /\ (t \notin DOMAIN after.positions)
                    <=> (before.positions[t].quantity - e.quantity = 0)

\* a partial sell: something sold, something left
C4_Witness ==
    /\ ExecutedSell
    /\ last.execution.quantity > 0
    /\ last.market_ticker \in DOMAIN portfolios[last.model_id].positions
    /\ last.execution.quantity < pre[last.model_id].positions[last.market_ticker].quantity

\* C5: a sell by an agent without a position on the matching side (none at
\* all, or one on the other side) fails with the no-position error and
\* leaves bankroll, positions and trade counters unchanged.
C5_SellNeedsMatchingSide ==
    (/\ last.op = "execute"
     /\ IsSell(last.action)
     /\ ~(/\ last.market_ticker \in DOMAIN pre[last.model_id].positions
          /\ pre[last.model_id].positions[last.market_ticker].side
                = SideOf(last.action)))
    => /\ ~last.execution.success
       /\ last.execution.error = "No position to sell"
       /\ portfolios[last.model_id].bankroll = pre[last.model_id].bankroll
       /\ portfolios[last.model_id].positions = pre[last.model_id].positions
       /\ portfolios[last.model_id].total_trades = pre[last.model_id].total_trades
       /\ portfolios[last.model_id].winning_trades = pre[last.model_id].winning_trades

\* C6: settling T with result r reports q*v - q*p for an agent holding
\* (s, q, p), v = 100 iff s = r, credits q*v, counts a win iff the P&L is
\* positive, leaves total_trades alone and deletes the position; an agent
\* without a position in T gets 0 and an unchanged portfolio.
C6_SettlementPnl ==
    last.op = "settle" =>
        \A m \in Models :
            LET t == last.market_ticker
                pnl == last.pnl_by_model[m]
            IN  IF t \in DOMAIN pre[m].positions
                THEN LET pos == pre[m].positions[t]
                         v == IF pos.side = last.result THEN 100 ELSE 0
                         q == pos.quantity
                         p == pos.avg_price
                     IN  /\ pnl.num * p.den = (q * v * p.den - q * p.num) * pnl.den
                         /\ portfolios[m].bankroll = pre[m].bankroll + q * v
                         /\ portfolios[m].winning_trades = pre[m].winning_trades
                                + (IF q * v * p.den > q * p.num THEN 1 ELSE 0)
                         /\ portfolios[m].total_trades = pre[m].total_trades
                         /\ portfolios[m].positions = DelKey(pre[m].positions, t)
                         /\ portfolios[m].decisions = pre[m].decisions
                ELSE pnl.num = 0 /\ portfolios[m] = pre[m]

\* 25 YES at 40 settled yes: P&L 1,500, bankroll up by 2,500, position gone,
\* while the other agent holds nothing in the ticker
C6_Witness ==
    /\ last.op = "settle"
    /\ last.result = "yes"
    /\ \E m \in Models :
        /\ last.market_ticker \in DOMAIN pre[m].positions
        /\ pre[m].positions[last.market_ticker].side = "yes"
        /\ pre[m].positions[last.market_ticker].quantity = 25
        /\ pre[m].positions[last.market_ticker].avg_price = RatOfInt(40)
        /\ last.pnl_by_model[m] = RatOfInt(1500)
        /\ portfolios[m].bankroll = pre[m].bankroll + 2500
        /\ last.market_ticker \notin DOMAIN portfolios[m].positions
        /\ \E o \in Models \ {m} :
                last.market_ticker \notin DOMAIN pre[o].positions

\* C7: a second settlement of the same ticker, with any result, reports 0
\* for every agent and changes no portfolio.
C7_SettlementIdempotent ==
    (last.op = "settle" /\ prev = <<"settle", last.market_ticker>>)
        => /\ \A m \in Models : last.pnl_by_model[m] = RatOfInt(0)
           /\ portfolios = pre

\* a ticker settled twice in a row after the first settlement paid out
C7_Witness ==
    /\ last.op = "settle"
    /\ prev = <<"settle", last.market_ticker>>
    /\ \E m \in Models :
        /\ portfolios[m].total_trades = 1
        /\ portfolios[m].positions = NoPositions
        /\ portfolios[m].bankroll > initial_bankroll

----------------------------------------------------------------------------
(* Properties of the replay engine and of the prompt *)

\* the candlestick index of a snapshot: its history is the prefix 0..index
IndexOf(state) == Len(state.price_history) - 1

\* the loaded market with the candlesticks after timestep_idx replaced
WithFuture(market, timestep_idx, shapes) ==
    [market EXCEPT !.price_history =
        SubSeq(@, 1, timestep_idx + 1) \o Stamp(shapes, timestep_idx + 1)]

\* C8: the snapshot at index i has candlesticks 0..i as its history, the
\* quotes, last price and open interest of candlestick i and the summed
\* volume of candlesticks 0..i; a market that agrees on the metadata and on
\* candlesticks 0..i yields the same snapshot whatever comes later.
C8_NoLookahead ==
    last.op = "snapshot" =>
        LET i == last.requested
            h == markets[1].price_history
        IN  /\ Len(market_state.price_history) = i + 1
            /\ \A j \in 1..(i + 1) :
                    LET c == market_state.price_history[j]
                    IN  /\ c.timestamp = OrZero(h[j].ts)
                        /\ c.yes_bid = OrZero(h[j].bid)
                        /\ c.yes_ask = OrZero(h[j].ask)
                        /\ c.price_close = OrZero(h[j].close)
                        /\ c.volume = OrZero(h[j].volume)
                        /\ c.open_interest = OrZero(h[j].open_interest)
            /\ market_state.current_timestamp = OrZero(h[i + 1].ts)
            /\ market_state.current_yes_bid = OrZero(h[i + 1].bid)
            /\ market_state.current_yes_ask = OrZero(h[i + 1].ask)
            /\ market_state.current_price = OrZero(h[i + 1].close)
            /\ market_state.open_interest = OrZero(h[i + 1].open_interest)
            /\ market_state.volume = SumSeq([j \in 1..(i + 1) |-> OrZero(h[j].volume)])
            /\ \A shapes \in ShapeSeqs(0, MaxCandles - (i + 1)) :
                    GetMarketStateAtTimestep(WithFuture(markets[1], i, shapes), i)
                        = market_state

\* a snapshot strictly inside a history whose later candlesticks trade
C8_Witness ==
    /\ last.op = "snapshot"
    /\ last.requested >= 1
    /\ last.requested + 1 < Len(markets[1].price_history)
    /\ market_state.volume > 0
    /\ \E j \in (last.requested + 2)..Len(markets[1].price_history) :
            OrZero(markets[1].price_history[j].volume) > 0

FlipResult(result) == IF result = "yes" THEN "no" ELSE "yes"

\* C9: the prompt sent to an agent is the prompt of the same snapshot with
\* the market's result flipped: the result never reaches the text.
C9_PromptHidesResult ==
    last.op = "execute" =>
        LET flipped == [MarketOf(last.market_ticker) EXCEPT !.result = FlipResult(@)]
            state == GetMarketStateAtTimestep(flipped, IndexOf(market_state))
        IN  /\ state.result # market_state.result
            /\ user_prompt = BuildMarketPrompt(state, pre[last.model_id])

\* a prompt for an agent that holds a position, in a market with rules_secondary
C9_Witness ==
    /\ last.op = "execute"
    /\ market_state.result \in Results
    /\ market_state.rules_secondary # ""
    /\ user_prompt.additional # <<>>
    /\ Len(user_prompt.position_info) = 4

\* C10: for N >= 2 candlesticks and k >= 2 requested points the sample has
\* min(k, N) points with strictly increasing indices, the first 0 and the
\* last N-1; with k >= N it is every index (3 candlesticks, 5 requested: 3).
C10_DecisionPointSampling ==
    (last.op = "sample" /\ Len(markets[1].price_history) >= 2 /\ num_points >= 2) =>
        LET N == Len(markets[1].price_history)
            k == num_points
            idx == [j \in 1..Len(decision_points) |-> IndexOf(decision_points[j])]
        IN  /\ Len(idx) = Min(k, N)
            /\ \A j \in 1..(Len(idx) - 1) : idx[j] < idx[j + 1]
            /\ idx[1] = 0
            /\ idx[Len(idx)] = N - 1
            /\ \A j \in 1..Len(idx) :
                    decision_points[j]
                        = GetMarketStateAtTimestep(markets[1], idx[j])
            /\ k >= N => \A j \in 1..N : idx[j] = j - 1
            /\ (N = 3 /\ k = 5) => Len(idx) = 3

\* a sample with fewer points than candlesticks and an interior point
C10_Witness ==
    /\ last.op = "sample"
    /\ num_points = 3
    /\ Len(markets[1].price_history) = 5
    /\ Len(decision_points) = 3
    /\ IndexOf(decision_points[2]) = 2

----------------------------------------------------------------------------
(* Properties of the orchestrator *)

\* C11: a run in which a stop request was observed, between decision points
\* or between markets, before the last loaded market was processed ends
\* with the lifecycle state paused, not completed.
C11_StoppedRunEndsPaused ==
    (pc = "done" /\ hist.stop_observed) => status = "paused"

\* the except clause has run
Handled == pc \in {"errsave", "failed"}

\* C13: an exception raised while loading the markets (zero usable markets
\* included) or in the main loop moves the lifecycle state to error with
\* the message of the exception; the state stays error afterwards; the
\* attempt to save the trace changes neither of them whether it succeeds or
\* not; and the portfolios, the decision list and the market results are
\* those accumulated before the exception.
C13_ExceptionMovesToError ==
    /\ Handled => (status = "error" /\ error_message = exception
                    /\ exception # "" /\ tracer.status = "error")
    /\ hist.before.status = "error" => status = "error"
    /\ status = "error" => pc \in {"errsave", "failed"}
    /\ (hist.raised /\ pc \in {"except", "errsave", "failed"}) =>
            /\ portfolios = hist.at_raise.portfolios
            /\ all_decisions = hist.at_raise.all_decisions
            /\ market_results = hist.at_raise.market_results

\* an exception of the main loop after decisions and a settlement, and the
\* trace could not be saved
C13_Witness ==
    /\ pc = "failed"
    /\ status = "error"
    /\ error_message = "'int' object has no attribute 'get'"
    /\ all_decisions > 0
    /\ Len(market_results) = 1
    /\ tracer.saved = 0

\* every selected decision point of loaded market i has been run for every
\* agent
AllPointsRun(i) ==
    \A d \in 1..Len(GetDecisionPoints(markets[i], num_points)) : <<i, d>> \in hist.ran

IsSettled(i) == \E j \in 1..Len(hist.settled) : hist.settled[j] = i

\* C12: the lifecycle state is completed only if every selected decision
\* point of every loaded market was run for all agents, every loaded market
\* was settled and markets_completed is the number of loaded markets.
C12_CompletedMeansAllProcessed ==
    status = "completed" =>
        /\ markets_completed = Len(markets)
        /\ \A i \in 1..Len(markets) : AllPointsRun(i) /\ IsSettled(i)

\* C14: a market is settled at most once, and only when every selected
\* decision point of it has been run for all agents.
C14_SettledAfterAllPoints ==
    /\ \A j, k \in 1..Len(hist.settled) :
            hist.settled[j] = hist.settled[k] => j = k
    /\ \A j \in 1..Len(hist.settled) : AllPointsRun(hist.settled[j])

\* C15: at a decision point no agent's decision is applied to its portfolio
\* until the oracle call of every agent for that point has returned.
C15_JoinBeforeMutation ==
    hist.applied # {} => hist.returned = Models

\* candlesticks that parse, with strictly increasing timestamps
WellFormedHistory(price_history) ==
    /\ \A j \in 1..Len(price_history) : ~ParseCandlestickRaises(price_history[j])
    /\ \A j \in 1..(Len(price_history) - 1) :
            price_history[j].ts < price_history[j + 1].ts

\* C19: a malformed record is excluded at load time, so every loaded market
\* is well formed, and no exception of the main loop comes from one.
C19_MalformedRecordNotLoaded ==
    \A i \in 1..Len(markets) : WellFormedHistory(markets[i].price_history)

\* C20: a stream that started with the run has, when it terminates, emitted
\* a snapshot for every value markets_completed took.
C20_StreamEmitsEveryValue ==
    (stream.pc = "done" /\ stream.emitted[1].markets_completed = 0
        /\ stream.emitted[1].status = "running") =>
        \A v \in 0..markets_completed :
            \E j \in 1..Len(stream.emitted) :
                stream.emitted[j].markets_completed = v

\* ApplyResult has just run for the agent before model_idx
JustApplied == pc = "model" /\ model_idx > 1

OracleFailed == hist.response.kind \in {"raise", "text"}

\* C16: an oracle call that fails, or a response that cannot be decoded,
\* comes back as a failed result: the run does not enter error, the call is
\* in the trace, no trade is executed, the agent's portfolio and decision
\* history, the decision list and the predictions are unchanged, and by
\* the end of the decision point every agent has been queried and every
\* agent whose call succeeded has had its decision applied.
C16_FailedOracleCallIsSkipped ==
    /\ (pc = "apply" /\ OracleFailed) =>
            /\ ~decision_result.success
            /\ status = "running"
            /\ tracer.llm_calls = hist.before.tracer.llm_calls + 1
            /\ tracer.parse_failures = hist.before.tracer.parse_failures + 1
    /\ (JustApplied /\ OracleFailed) =>
            /\ last.op = "skip"
            /\ status = "running"
            /\ portfolios = pre
            /\ tracer.trade_executions = hist.before.tracer.trade_executions
            /\ all_decisions = hist.before.all_decisions
            /\ predictions = hist.before.predictions
    /\ (pc = "point" /\ dp_idx > 1) =>
            /\ hist.returned = Models
            /\ hist.applied = Models \ hist.failed

\* the first agent's call failed and the second agent's decision was applied
C16_Witness ==
    /\ pc = "point"
    /\ dp_idx > 1
    /\ hist.failed = {"m1"}
    /\ hist.applied = {"m2"}
    /\ last.op = "execute"
    /\ last.execution.quantity > 0
    /\ portfolios["m1"] = NewPortfolio(initial_bankroll)

\* ApplyResult has just run and the trade failed at execution
FailedTrade == JustApplied /\ last.op = "execute" /\ ~last.execution.success

\* C17: a trade that fails at execution leaves the agent's bankroll,
\* positions, total_trades and winning_trades unchanged, while the decision
\* is appended to the agent's decision history and to the run's decision
\* list, and a failed buy is recorded as a prediction.
C17_FailedTradeIsStillRecorded ==
    FailedTrade =>
        LET before == pre[last.model_id]
            after == portfolios[last.model_id]
            made == BagCardinality(predictions)
                        - BagCardinality(hist.before.predictions)
        IN  /\ after.bankroll = before.bankroll
            /\ after.positions = before.positions
            /\ after.total_trades = before.total_trades
            /\ after.winning_trades = before.winning_trades
            /\ after.decisions = before.decisions + 1
            /\ all_decisions = hist.before.all_decisions + 1
            /\ IsBuy(last.action) =>
                    /\ made = 1
                    /\ \E x \in BagToSet(predictions) :
                            /\ x.model_id = last.model_id
                            /\ x.market_ticker = last.market_ticker
                            /\ CopiesIn(x, predictions)
                                  = CopiesIn(x, hist.before.predictions) + 1

\* a buy that asked for no contracts failed and was recorded
C17_Witness ==
    /\ FailedTrade
    /\ IsBuy(last.action)
    /\ last.requested = 0
    /\ last.execution.error = "Insufficient bankroll"
    /\ BagCardinality(predictions) = 2
    /\ all_decisions = 3

\* C18: total_trades grows by exactly 1 with each execution that moved
\* size and is unchanged by a hold, a failed trade, a sell that executed 0
\* contracts and a settlement; it equals the number of size-moving
\* executions so far.
C18_TotalTradesCountsMoves ==
    /\ \A m \in Models : portfolios[m].total_trades = hist.moves[m]
    /\ last.op = "execute" =>
            \A m \in Models :
                portfolios[m].total_trades =
                    pre[m].total_trades
                      + (IF m = last.model_id /\ last.execution.quantity > 0
                         THEN 1 ELSE 0)
    /\ last.op = "settle" =>
            \A m \in Models : portfolios[m].total_trades = pre[m].total_trades

\* a sell that executed 0 contracts of a held position, after one trade
C18_Witness ==
    /\ last.op = "execute"
    /\ IsSell(last.action)
    /\ last.execution.success
    /\ last.execution.quantity = 0
    /\ last.market_ticker \in DOMAIN portfolios[last.model_id].positions
    /\ portfolios[last.model_id].total_trades = 1

----------------------------------------------------------------------------
(* Properties of the sampling arithmetic *)

\* the indices of the sample taken last, for 2 < k < N
InteriorSample ==
    /\ last.op = "sample"
    /\ 2 < num_points
    /\ num_points < Len(markets[1].price_history)

SampleIndex(j) == IndexOf(decision_points[j])

----------------------------------------------------------------------------
(* Properties of the ledger: prices, positions and counters *)

\* an execution that traded: a buy or a sell that succeeded
ExecutedTrade == ExecutedBuy \/ ExecutedSell

\* C22: for every executed trade the execution price equals the quoted price
\* of the snapshot (yes ask for buy_yes, 100 - yes bid for buy_no, yes bid
\* for sell_yes, 100 - yes ask for sell_no), a bid or ask of 0 included.
C22_ExecutionPriceIsQuote ==
    ExecutedTrade =>
        last.execution.price =
            (CASE last.action = BUY_YES  -> market_state.current_yes_ask
               [] last.action = BUY_NO   -> 100 - market_state.current_yes_bid
               [] last.action = SELL_YES -> market_state.current_yes_bid
               [] last.action = SELL_NO  -> 100 - market_state.current_yes_ask)


\* C23: an agent has one position per ticker at most, and a successful buy
\* of q at price p updates it: without a position it creates (side, q, p);
\* on a same-side position (q0, p0) it gives quantity q0 + q at average
\* price (q0*p0 + q*p) / (q0 + q); on an opposite-side position it replaces
\* it by (side, q, p); the bankroll changes by -q*p only.
C23_BuyUpdatesPosition ==
    ExecutedBuy =>
        LET m == last.model_id
            t == last.market_ticker
            side == SideOf(last.action)
            q == last.execution.quantity
            p == last.execution.price
            before == pre[m].positions
            after == portfolios[m].positions
        IN  /\ DOMAIN after = DOMAIN before \cup {t}
            /\ \A u \in DOMAIN before \ {t} : after[u] = before[u]
            /\ after[t].market_ticker = t
            /\ after[t].side = side
            /\ portfolios[m].bankroll = pre[m].bankroll - q * p
            /\ IF t \in DOMAIN before /\ before[t].side = side
               THEN LET q0 == before[t].quantity
                        p0 == before[t].avg_price
                    IN  /\ after[t].quantity = q0 + q
                        /\ after[t].avg_price
                             = Rat(q0 * p0.num + q * p * p0.den,
                                   (q0 + q) * p0.den)
               ELSE /\ after[t].quantity = q
                    /\ after[t].avg_price = RatOfInt(p)

\* a buy on the side opposite to the held position: the position is replaced
\* and nothing is credited for the abandoned side
C23_Witness ==
    /\ ExecutedBuy
    /\ last.market_ticker \in DOMAIN pre[last.model_id].positions
    /\ pre[last.model_id].positions[last.market_ticker].side
         # SideOf(last.action)
    /\ portfolios[last.model_id].positions[last.market_ticker].quantity
         = last.execution.quantity
    /\ portfolios[last.model_id].bankroll
         = pre[last.model_id].bankroll - last.execution.cost

----------------------------------------------------------------------------
(* Properties of the decision protocol *)

\* get_decision returned a decision parsed from a JSON object
Parsed == hist.response.kind = "object" /\ decision_result.success

\* the action string of the answer, folded to lower case; hold when the
\* answer has no action
AnsweredAction ==
    IF ~hist.response.has_action THEN "hold"
    ELSE CASE hist.response.action \in {"buy_yes", "BUY_YES"} -> "buy_yes"
           [] hist.response.action \in {"buy_no", "Buy_No"} -> "buy_no"
           [] hist.response.action \in {"hold", "Hold"} -> "hold"
           [] hist.response.action \in {"sell_yes", "Sell_Yes"} -> "sell_yes"
           [] hist.response.action \in {"sell_no", "SELL_NO"} -> "sell_no"
           [] hist.response.action \in {"sell", "Sell"} -> "sell"
           [] OTHER -> "other"

\* C24 (as stated): exactly the strings buy_yes, buy_no, hold, sell_yes and
\* sell_no, in any case, map to their own action; every other action string
\* and a missing action yield hold.
C24_FiveStringsElseHold ==
    Parsed =>
        decision_result.decision.action =
            (IF AnsweredAction \in Action THEN AnsweredAction ELSE HOLD)

\* C24 (amended): the strings buy_yes, buy_no, hold, sell_yes and sell_no, in
\* any case, map to their own action, the string sell, in any case, maps to
\* sell_yes, and every other action string and a missing action yield hold.
C24_FiveStringsSellElseHold ==
    Parsed =>
        decision_result.decision.action =
            (IF AnsweredAction \in Action THEN AnsweredAction
             ELSE IF AnsweredAction = "sell" THEN SELL_YES
             ELSE HOLD)

\* the answer "Sell" is decoded as sell_yes
C24_Witness ==
    /\ Parsed
    /\ hist.response.action = "Sell"
    /\ decision_result.decision.action = SELL_YES

----------------------------------------------------------------------------
(* Properties of the lifecycle *)

\* running is or was observable: in the status, or in a broadcast
RunningObserved == status = "running" \/ "running" \in hist.broadcast

\* C25: the state leaves initializing for running only after the markets
\* were loaded with at least one usable market; when loading fails or gives
\* no usable market the state goes from initializing to error and running is
\* never observable, in the status or in a broadcast.
C25_RunningOnlyAfterLoad ==
    /\ RunningObserved => Len(markets) >= 1
    /\ (status = "error" /\ Len(markets) = 0) => ~RunningObserved

----------------------------------------------------------------------------
(* Properties of the ledger: the position limit and the trade counters *)

\* C26: after any sequence of buys by one agent in one market with no sell
\* in between, the cost basis of the position (quantity * average entry
\* price) is at most max_position_pct of the bankroll the agent had before
\* the first of those buys.
C26_FractionBoundsPosition ==
    \A m \in Models : \A t \in DOMAIN portfolios[m].positions :
        hist.buying[m][t] # Null =>
            LET position == portfolios[m].positions[t]
            IN  100 * position.quantity * position.avg_price.num
                  <= max_position_pct * hist.buying[m][t]
                       * position.avg_price.den


\* C27: after any sequence of holds, buys, sells and settlements every agent
\* has 0 <= winning_trades <= total_trades, so its win rate is within [0, 1],
\* and is 0 when total_trades is 0.
C27_WinsWithinTrades ==
    \A m \in Models :
        LET portfolio == portfolios[m]
            rate == CalculateWinRate(portfolio)
        IN  /\ 0 <= portfolio.winning_trades
            /\ portfolio.winning_trades <= portfolio.total_trades
            /\ 0 <= rate.num
            /\ rate.num <= rate.den
            /\ portfolio.total_trades = 0 => rate = RatOfInt(0)

\* a settlement counted a win without counting a trade, and every trade of
\* the agent is now a win
C27_Witness ==
    \E m \in Models :
        /\ last.op = "settle"
        /\ portfolios[m].winning_trades = pre[m].winning_trades + 1
        /\ portfolios[m].total_trades = pre[m].total_trades
        /\ portfolios[m].winning_trades = portfolios[m].total_trades

----------------------------------------------------------------------------
(* Properties of the run: positions and markets *)

\* where run() stands inside the processing of markets[market_idx]
InMarket == pc \in {"point", "model", "await", "apply", "settle"}

\* the tickers in which some agent holds a position
OpenTickers == UNION { DOMAIN portfolios[m].positions : m \in Models }

\* C28: at every point of a run every open position is in the market being
\* processed: an agent holds one position at most, no agent holds a position
\* between the settlement of a market and the first decision point of the
\* next, nor when the run has ended without error, stopped or not.
C28_PositionsOnlyInCurrentMarket ==
    /\ \A m \in Models : Cardinality(DOMAIN portfolios[m].positions) <= 1
    /\ InMarket => OpenTickers \subseteq {markets[market_idx].ticker}
    /\ pc \in {"start", "load", "market", "sleep"} => OpenTickers = {}
    /\ pc \in {"finish", "save", "done"} => OpenTickers = {}

\* a stopped run has ended without error and an agent that bought holds
\* nothing
C28_Witness ==
    /\ pc = "done"
    /\ hist.stop_observed
    /\ \E m \in Models : hist.moves[m] > 0
    /\ OpenTickers = {}

----------------------------------------------------------------------------
(* Properties of the lifecycle: the terminal state *)

\* C29: completed is terminal: once the status has been set to completed it
\* never changes again, whatever the score computation, the trace save and
\* the final broadcast that follow do.
C29_CompletedIsTerminal ==
    [][status = "completed" => status' = "completed"]_vars

----------------------------------------------------------------------------
(* Properties of the sampling: small counts *)

\* get_decision_points was called last, on a market with candlesticks
Sampled ==
    /\ last.op \in {"sample", "raise"}
    /\ Len(markets[1].price_history) >= 1

\* C30: for every num_points >= 0 and every market with N >= 1 candlesticks
\* get_decision_points returns without raising and returns at most
\* max(num_points, 0) states; num_points = 1 with N >= 2 gives exactly one
\* decision point.
C30_SmallCountsReturn ==
    (Sampled /\ num_points >= 0) =>
        /\ last.op = "sample"
        /\ Len(decision_points) <= Max(num_points, 0)
        /\ (num_points = 1 /\ Len(markets[1].price_history) >= 2) =>
                Len(decision_points) = 1

====
